---- MODULE Spec2Model ----
(***************************************************************************)
(* Document ingestion and retrieval service (FastAPI + SQLAlchemy +        *)
(* pgvector).  The model follows the request handlers of                   *)
(* apps/api/routers and the pipeline of apps/api/core/rag_pipeline.py.     *)
(*                                                                         *)
(* The committed contents of the PostgreSQL tables are the variables docs  *)
(* and chunks; what a request has written inside its still open            *)
(* transaction lives in the request's own record and becomes visible to    *)
(* the others only at commit.  Requests run concurrently: every handler is *)
(* cut at its external calls (embedding model, commit).                    *)
(***************************************************************************)
EXTENDS Integers, Sequences, FiniteSets, TLC

\* ------------------------------------------------------------------ bounds
NumReq == 2          \* requests served concurrently (Spec)
NumQueryReq == 1     \* requests served concurrently (SpecQuery)
MaxDocId == 2        \* values the documents id sequence may hand out
MaxChunkId == 4      \* values the document_chunks id sequence may hand out
MaxTextLen == 2      \* characters of a text given to generate_embedding
MaxTexts == 3        \* texts given to generate_embedding_batch
MaxBatchSize == 2    \* batch_size given to generate_embedding_batch
MaxPages == 3        \* pages/sections of a document given to process_file

\* --------------------------------------------------------------- constants
\* (variant) the extensions written as Path.suffix yields them
ALLOWED_EXTENSIONS_DOTTED == {".txt", ".pdf"}
\* documents.py:17
ALLOWED_EXTENSIONS == {"txt", "pdf"}
\* documents.py:18
MAX_FILE_SIZE == 10 * 1024 * 1024
\* config.py:33,34
chunk_size == 1000
chunk_overlap == 200
\* config.py:35,36 (similarity in tenths: 7 stands for 0.7)
top_k_results == 5
similarity_threshold == 7
\* embeddings.py:16
dimension == 1536
\* embeddings.py:48 (default of the parameter)
batch_size == 100

\* Names of the fields of Settings (config.py:14-41) that the pipeline reads.
SettingsFields == {"OPENAI_API_KEY", "OPENAI_EMBEDDING_MODEL", "chunk_size",
                   "chunk_overlap", "top_k_results", "similarity_threshold"}

\* Relations created by create_tables(): the __tablename__ of each ORM class.
OrmTables == {"documents", "document_chunks", "query_logs"}
\* Relation named in the FROM clause of the similarity query.
SqlChunkRelation == "document_chunk"

\* ---------------------------------------------------------------- file names
FileNames == {"a.txt", "B.PDF", "c.doc"}

\* Path(name).suffix
Suffix(name) ==
  CASE name = "a.txt" -> ".txt"
    [] name = "B.PDF" -> ".PDF"
    [] name = "c.doc" -> ".doc"
    [] OTHER -> ""

\* str.lower() on the suffixes above
Lower(s) ==
  CASE s = ".PDF" -> ".pdf"
    [] s = ".TXT" -> ".txt"
    [] OTHER -> s

\* file_extension[1:]
DropFirst(s) ==
  CASE s = ".txt" -> "txt"
    [] s = ".pdf" -> "pdf"
    [] s = ".doc" -> "doc"
    [] OTHER -> ""

\* A file's content: the text of each page/section the loader yields for it,
\* a text being a sequence of characters ("\n" is the newline).  A text file
\* is loaded as one section, a PDF as one section per page.
NoFile == << <<"(no file)">> >>
Contents == {<< <<"a">>, <<"b">> >>, << <<>> >>, << <<"a">> >>}
InitialContent(name) ==
  CASE name = "a.txt" -> << <<>> >>
    [] name = "B.PDF" -> << <<"a">>, <<"b">> >>
    [] OTHER -> << <<"a">> >>

\* ------------------------------------------------------------- embeddings
\* Vectors the external embedding model may return (dimension scaled to 2).
Vecs == {<<1, 0>>, <<1, 1>>}
\* Vectors it may return for a query text.
QueryVecs == {<<1, 0>>, <<0, 1>>}
ZeroVec == <<0, 0>>

Dot(a, b) == a[1] * b[1] + a[2] * b[2]

\* A similarity dot/sqrt(n) is kept as the pair (dot, n); n = 0 is NaN.
Similarity(a, q) == [dot |-> Dot(a, q), n |-> Dot(a, a) * Dot(q, q)]
Tenths(t) == [dot |-> t, n |-> 100]
SignedSq(x) == IF x < 0 THEN 0 - x * x ELSE x * x
IsNaN(s) == s.n = 0
\* s < t on numbers; never true when one side is NaN
SimLess(s, t) == /\ ~IsNaN(s) /\ ~IsNaN(t)
                 /\ SignedSq(s.dot) * t.n < SignedSq(t.dot) * s.n
SimEq(s, t) == \/ IsNaN(s) /\ IsNaN(t)
               \/ /\ ~IsNaN(s) /\ ~IsNaN(t)
                  /\ SignedSq(s.dot) * t.n = SignedSq(t.dot) * s.n
\* PostgreSQL float8 ">=": NaN compares greater than every number
PgGe(s, t) == IF IsNaN(s) THEN TRUE ELSE IF IsNaN(t) THEN FALSE ELSE ~SimLess(s, t)
\* ORDER BY distance ASC, distance = 1 - similarity: strictly earlier in the order
PgDistLess(s, t) == IF IsNaN(s) THEN FALSE ELSE IF IsNaN(t) THEN TRUE ELSE SimLess(t, s)

\* Optional[T]: <<>> is None, <<v>> is the value v
None == <<>>
Some(v) == <<v>>
\* Python "x or default": None and 0 / 0.0 are falsy
PyOr(opt, default) == IF opt = None \/ opt[1] = 0 THEN default ELSE opt[1]

VARIABLES
  files,        \* data/raw: file name -> content, or NoFile
  docs,         \* committed rows of table documents
  chunks,       \* committed rows of table document_chunks
  nextDocId,    \* documents id sequence
  nextChunkId,  \* document_chunks id sequence
  catalog,      \* relations that exist in the database
  req,          \* per request slot: position, arguments, open transaction
  last,         \* the request that just finished, with its response, until delivered
  ingested,     \* history: document id -> ids of the chunk rows its ingestion committed
  deleted,      \* history: ids of the documents a delete_document removed
  svc           \* the service call under way (SpecEmbed, SpecChunk)

vars == <<files, docs, chunks, nextDocId, nextChunkId, catalog, req, last,
          ingested, deleted, svc>>

\* ------------------------------------------------------------ small helpers
Min(a, b) == IF a < b THEN a ELSE b
RECURSIVE Flatten(_)
Flatten(ss) == IF ss = <<>> THEN <<>> ELSE Head(ss) \o Flatten(Tail(ss))

DocIds(D) == {d.id : d \in D}
ChunkIds(C) == {c.id : c \in C}
ChunksOf(C, id) == {c \in C : c.document_id = id}

\* ------------------------------------------------------- embedding service
\* Texts are sequences of characters; "\n" is the newline.
Chars == {"a", "b", " ", "\n"}
RECURSIVE SeqsUpTo(_, _)
SeqsUpTo(S, n) ==
  IF n = 0 THEN {<<>>}
  ELSE LET shorter == SeqsUpTo(S, n - 1)
       IN shorter \cup {Append(t, x) : t \in {u \in shorter : Len(u) = n - 1}, x \in S}
\* texts a caller may hand to generate_embedding
Texts == SeqsUpTo(Chars, MaxTextLen)
\* texts a caller may put in the list it hands to generate_embedding_batch
BatchTexts == {<<"a">>, <<"b">>, <<"a", "\n">>}
BatchSizes == 1..MaxBatchSize

\* text.replace("\n", " ")
Replace(text) ==
  [k \in 1..Len(text) |-> IF text[k] = "\n" THEN " " ELSE text[k]]
\* str.strip(): leading and trailing whitespace removed
Whitespace(c) == c \in {" ", "\n"}
RECURSIVE LStrip(_)
LStrip(text) ==
  IF text # <<>> /\ Whitespace(Head(text)) THEN LStrip(Tail(text)) ELSE text
RECURSIVE RStrip(_)
RStrip(text) ==
  IF text # <<>> /\ Whitespace(text[Len(text)])
  THEN RStrip(SubSeq(text, 1, Len(text) - 1)) ELSE text
Strip(text) == RStrip(LStrip(text))

\* (variant) the text is used as given
CleanKeep(text) == text

\* text.replace("\n", " ").strip()
Clean(text) == Strip(Replace(text))

\* [0.0] * self.dimension
ZeroVector == [k \in 1..dimension |-> 0]

\* The vector the external model computes for an input, kept symbolic.
Vector(input) == [of |-> input]
\* response.data of client.embeddings.create(input=...): one item per input,
\* in the order of the inputs
embeddings_create(inputs) ==
  [k \in 1..Len(inputs) |-> [embedding |-> Vector(inputs[k]), index |-> k - 1]]
\* the exceptions client.embeddings.create may raise
FailureKinds == {"APIConnectionError", "RateLimitError", "BadRequestError"}
Exception(type) == [type |-> type, cause |-> None]

\* Python s[i:j] for 0 <= i <= j
Slice(s, i, j) == SubSeq(s, i + 1, Min(j, Len(s)))

\* (variant) a group one text short
BatchShort(texts, i, size) == Slice(texts, i, i + size - 1)

\* batch = texts[i:i + batch_size]
Batch(texts, i, size) == Slice(texts, i, i + size)

\* (variant) a first call is made before the length is looked at
BatchCountAtLeastOne(n, size) == IF n = 0 THEN 1 ELSE (n + size - 1) \div size

\* len(range(0, n, batch_size)): the number of external calls for n texts
BatchCount(n, size) == (n + size - 1) \div size

\* (variant) the failure is wrapped in a new exception of another type
ReraiseWrapped(e) == [type |-> "RuntimeError", cause |-> Some(e.type)]

\* except Exception as e: logger.error(...); raise
Reraise(e) == e

IdleSvc == [pc |-> "idle", op |-> "", texts |-> <<>>, batch_size |-> 0, i |-> 0,
            all_embeddings |-> <<>>, calls |-> <<>>, failure |-> None,
            result |-> None, error |-> None]

\* ------------------------------------------------------- document_processor
\* (variant) every extension gets a loader
LoadableAny(file_path) == TRUE

\* load_document: the extension test that selects the loader
Loadable(file_path) == Lower(Suffix(file_path)) \in {".pdf", ".txt"}

\* RecursiveCharacterTextSplitter: the number of chunks made of a text of the
\* given length: none for an empty text, one when it fits in chunk_size,
\* overlapping windows otherwise.
PieceCount(len) ==
  IF len = 0 THEN 0
  ELSE IF len <= chunk_size THEN 1
  ELSE ((len - chunk_overlap) + (chunk_size - chunk_overlap) - 1)
         \div (chunk_size - chunk_overlap)

\* (variant) strip_whitespace is off: the chunks keep their blanks
split_text_unstripped(text) == IF text = <<>> THEN <<>> ELSE <<text>>

\* text_splitter.split_text: the splits of a text that fits in chunk_size are
\* merged back into one chunk, which is stripped and dropped when empty; a
\* longer text gives windows of chunk_size that overlap by chunk_overlap.
split_text(text) ==
  LET t == Strip(text)
      step == chunk_size - chunk_overlap
  IN [k \in 1..PieceCount(Len(t)) |->
        Strip(SubSeq(t, (k - 1) * step + 1,
                     Min(Len(t), (k - 1) * step + chunk_size)))]

\* split_documents on one page: its chunks, each carrying the page's metadata
SplitPage(pageNo, text) ==
  LET pieces == split_text(text)
  IN [k \in 1..Len(pieces) |-> [page |-> pageNo, page_content |-> pieces[k]]]

\* "\n\n".join(pages)
RECURSIVE JoinPages(_)
JoinPages(pages) ==
  IF pages = <<>> THEN <<>>
  ELSE IF Len(pages) = 1 THEN pages[1]
  ELSE pages[1] \o <<"\n", "\n">> \o JoinPages(Tail(pages))

\* raise ValueError(f"Unsupported file type '{file_extension}'")
UnsupportedError == "ValueError: Unsupported file type"

\* chunk_documents: split every page, then number the pieces in order
chunk_documents(pages) ==
  LET pieces == Flatten([p \in 1..Len(pages) |-> SplitPage(p, pages[p])])
  IN  [i \in 1..Len(pieces) |->
         [text |-> pieces[i].page_content, page |-> pieces[i].page,
          chunk_index |-> i - 1]]

\* ----------------------------------------------------------- request slots
NoResp == [status |-> "none", stage |-> "", error |-> "", document_id |-> 0,
           filename |-> "", chunk_count |-> 0, answer |-> "", retrieved |-> <<>>,
           listing |-> <<>>, health |-> "", database_connected |-> FALSE]
NoQuery == [top_k |-> None, threshold |-> None, used_top_k |-> 0,
            used_threshold |-> 0, embedding |-> ZeroVec, searched |-> FALSE,
            found |-> <<>>, llm_called |-> FALSE]
NoDoc == [id |-> 0, filename |-> "", file_path |-> "", file_type |-> "",
          content |-> <<>>, extra_metadata |-> None]

\* A SQLAlchemy session as its user sees it: the calls made on it, the state
\* of its transaction, whether it was closed, and how the block using it ended.
NoSession == [calls |-> <<>>, tx |-> "none", closed |-> FALSE, exit |-> ""]

IdleReq == [pc |-> "idle", kind |-> "none", via |-> "", file_path |-> "",
            filename |-> "", file_type |-> "", size |-> 0, document_id |-> 0,
            document |-> NoDoc, chunk_list |-> <<>>, embeddings |-> <<>>,
            embed_calls |-> 0, stages |-> <<>>, probe |-> "",
            matched |-> {}, qry |-> NoQuery, session |-> NoSession,
            resp |-> NoResp]

Idle(r) == req[r].pc = "idle"
\* The slot a new request is served on: the first idle one.
Free(r) == Idle(r) /\ \A o \in DOMAIN req : o < r => ~Idle(o)

\* A finished request: what it worked on, and its response.
Finish(rq, resp) == [rq EXCEPT !.pc = "idle", !.resp = resp]

\* last holds the answer the latest handler step produced until Respond hands
\* it to the client.  Handler steps wait for that; Respond touches nothing
\* else, so every interleaving of the handlers' steps remains possible.
Delivered == last = IdleReq

\* Slot r answers: the slot is free again and the answer goes out.
Done(r, finished) ==
  /\ Delivered
  /\ req' = [req EXCEPT ![r] = IdleReq]
  /\ last' = finished

\* Slot r moves on inside its handler.
Step(r, rq) ==
  /\ Delivered
  /\ req' = [req EXCEPT ![r] = rq]
  /\ UNCHANGED last

Init ==
  /\ files = [n \in FileNames |-> InitialContent(n)]
  /\ docs = {}
  /\ chunks = {}
  /\ nextDocId = 1
  /\ nextChunkId = 1
  /\ catalog = OrmTables
  /\ req = [r \in 1..NumReq |-> IdleReq]
  /\ last = IdleReq
  /\ ingested = <<>>
  /\ deleted = {}
  /\ svc = IdleSvc

\* The same service with NumQueryReq request slots, on a database that holds
\* the tables create_tables() makes and that may, besides, know the chunk table
\* under the name the similarity query uses.
InitQuery ==
  /\ files = [n \in FileNames |-> InitialContent(n)]
  /\ docs = {}
  /\ chunks = {}
  /\ nextDocId = 1
  /\ nextChunkId = 1
  /\ catalog \in {OrmTables, OrmTables \cup {SqlChunkRelation}}
  /\ req = [r \in 1..NumQueryReq |-> IdleReq]
  /\ last = IdleReq
  /\ ingested = <<>>
  /\ deleted = {}
  /\ svc = IdleSvc

\* ---------------------------------------------------------- HTTP statuses
\* fastapi.status: the attributes the handlers name, and their codes
Status(name) ==
  CASE name = "HTTP_201_CREATED" -> "201"
    [] name = "HTTP_204_NO_CONTENT" -> "204"
    [] name = "HTTP_400_BAD_REQUEST" -> "400"
    [] name = "HTTP_404_NOT_FOUND" -> "404"
    [] name = "HTTP_500_INTERNAL_SERVER_ERROR" -> "500"
    [] OTHER -> "AttributeError"

\* raise HTTPException(status_code=status.<name>) inside
\*   try: ... except HTTPException: raise / except Exception: -> 500
\* a name the status module lacks raises AttributeError, caught as Exception.
RaisedStatus(name) ==
  IF Status(name) = "AttributeError"
  THEN Status("HTTP_500_INTERNAL_SERVER_ERROR")
  ELSE Status(name)

\* status attribute named by each not-found branch
DeleteNotFoundStatus == "HTTP_400_NOT_FOUND"
GetNotFoundStatus == "HTTP_404_NOT_FOUND"

\* ------------------------------------------------------ session / transaction
\* (variant) a flush that makes the row visible at once, as under autocommit
AfterFlushAutocommit(committed, row) == committed \cup {row}

\* db.flush(): the INSERT is sent inside the open transaction; the committed
\* rows are what they were.
AfterFlush(committed, row) == committed

\* (variant) a rollback that leaves the pending rows behind
AfterRollbackKeeps(committed, pending) == committed \cup pending

\* db.rollback(): what the transaction wrote is discarded.
AfterRollback(committed, pending) == committed

\* db.commit() of an ingestion: the pending rows become visible together.
AfterCommit(committed, pending) == committed \cup pending

\* ------------------------------------------------------------- ingestion
\* (variant) the rows are numbered from 1
ChunkRecordsFromOne(document_id, chunk_list, embeddings, firstId) ==
  {[id |-> firstId + i - 1,
    document_id |-> document_id,
    chunk_text |-> chunk_list[i].text,
    chunk_index |-> i,
    embedding |-> embeddings[i],
    extra_metadata |-> None] : i \in 1..Min(Len(chunk_list), Len(embeddings))}

\* for idx, (chunk, embedding) in enumerate(zip(chunks, embeddings))
ChunkRecords(document_id, chunk_list, embeddings, firstId) ==
  {[id |-> firstId + i - 1,
    document_id |-> document_id,
    chunk_text |-> chunk_list[i].text,
    chunk_index |-> i - 1,
    embedding |-> embeddings[i],
    extra_metadata |-> None] : i \in 1..Min(Len(chunk_list), Len(embeddings))}

\* The stage an ingestion has reached, added to those it went through.
Reached(rq, stage) == [rq EXCEPT !.stages = Append(rq.stages, stage)]

\* (variant) the except clause lacks its raise: the caller is answered as if
\* the ingestion had gone through
IngestFailureSwallowed(rq, stage) ==
  [NoResp EXCEPT !.status = IF rq.via = "upload" THEN "201" ELSE "returned",
                 !.stage = stage, !.filename = rq.filename]

\* What the caller of ingest_document sees when it raises: the upload handler
\* turns it into a 500, a direct caller gets the exception.
IngestFailure(rq, stage) ==
  [NoResp EXCEPT !.status = IF rq.via = "upload" THEN "500" ELSE "raised",
                 !.stage = stage, !.filename = rq.filename]

IngestSuccess(rq) ==
  [NoResp EXCEPT !.status = IF rq.via = "upload" THEN "201" ELSE "returned",
                 !.document_id = rq.document.id,
                 !.filename = rq.filename,
                 !.chunk_count = Len(rq.chunk_list)]

\* How process_file may end: normally, or with the loader or the splitter raising.
Outcomes == {"ok", "load", "chunk"}

\* ingest_document up to db.flush(): process_file, Document(...), db.add.
\* content is what the loader finds at rq.file_path; outcome says whether the
\* loader or the splitter raises.
IngestProcess(r, rq, content, outcome) ==
  IF ~Loadable(rq.file_path)
  THEN /\ docs' = AfterRollback(docs, {})
       /\ Done(r, Finish(Reached(rq, "FAILED"),
                         [IngestFailure(rq, "load") EXCEPT !.error = UnsupportedError]))
       /\ UNCHANGED nextDocId
  ELSE IF content = NoFile \/ outcome = "load"
  THEN /\ docs' = AfterRollback(docs, {})
       /\ Done(r, Finish(Reached(rq, "FAILED"),
                         [IngestFailure(rq, "load") EXCEPT !.error = "loader error"]))
       /\ UNCHANGED nextDocId
  ELSE IF outcome = "chunk"
  THEN /\ docs' = AfterRollback(docs, {})
       /\ Done(r, Finish(Reached(Reached(rq, "LOADED"), "FAILED"),
                         [IngestFailure(rq, "chunk") EXCEPT !.error = "splitter error"]))
       /\ UNCHANGED nextDocId
  ELSE LET document == [id |-> nextDocId, filename |-> rq.filename,
                        file_path |-> rq.file_path,
                        file_type |-> rq.file_type,
                        content |-> content, extra_metadata |-> None]
       IN /\ docs' = AfterFlush(docs, document)
          /\ nextDocId' = nextDocId + 1
          /\ Step(r, [Reached(Reached(rq, "LOADED"), "CHUNKED") EXCEPT
                        !.pc = "embed", !.document = document,
                        !.document_id = document.id,
                        !.chunk_list = chunk_documents(content)])

\* upload_document: validate, save under data/raw, call ingest_document
UploadDocument(r, name, size) ==
  /\ Free(r)
  /\ nextDocId <= MaxDocId
  /\ LET file_extension == Lower(Suffix(name))
         rq == [IdleReq EXCEPT !.kind = "upload", !.via = "upload",
                               !.filename = name, !.size = size]
     IN  IF file_extension \notin ALLOWED_EXTENSIONS
         THEN /\ Done(r, Finish(rq, [NoResp EXCEPT
                                       !.status = RaisedStatus("HTTP_400_BAD_REQUEST"),
                                       !.stage = "extension", !.filename = name]))
              /\ UNCHANGED <<files, docs, nextDocId>>
         ELSE IF size > MAX_FILE_SIZE
         THEN /\ Done(r, Finish(rq, [NoResp EXCEPT
                                       !.status = RaisedStatus("HTTP_400_BAD_REQUEST"),
                                       !.stage = "size", !.filename = name]))
              /\ UNCHANGED <<files, docs, nextDocId>>
         ELSE \E content \in Contents, outcome \in Outcomes :
                /\ files' = [files EXCEPT ![name] = content]
                /\ IngestProcess(r, [rq EXCEPT !.file_path = name,
                                               !.file_type = DropFirst(file_extension)],
                                 content, outcome)
  /\ UNCHANGED <<chunks, nextChunkId, catalog, ingested, deleted, svc>>

\* rag_pipeline.ingest_document(file_path, filename, file_type, db) called
\* directly on a file that lies in data/raw
IngestBegin(r, path, outcome) ==
  /\ Free(r)
  /\ nextDocId <= MaxDocId
  /\ IngestProcess(r, [IdleReq EXCEPT !.kind = "ingest", !.via = "direct",
                                      !.file_path = path, !.filename = path,
                                      !.file_type = DropFirst(Lower(Suffix(path)))],
                   files[path], outcome)
  /\ UNCHANGED <<files, chunks, nextChunkId, catalog, ingested, deleted, svc>>

\* What generate_embedding_batch returns for n texts when the external model
\* answers every input with one vector.
EmbeddingsOf(n) == [1..n -> Vecs]

\* What it returns when the external model's response.data may hold fewer
\* items than inputs: all_embeddings is whatever the responses held.
AnyEmbeddings(n) == UNION {[1..k -> Vecs] : k \in 0..n}

\* ingest_document: generate_embedding_batch(chunk_texts), the call returning
\* one of the lists in results
IngestEmbedWith(r, results) ==
  /\ req[r].pc = "embed"
  /\ LET n == Len(req[r].chunk_list)
         rq == [req[r] EXCEPT !.embed_calls = BatchCount(n, batch_size)]
     IN \/ /\ rq.embed_calls > 0      \* an external call was made and failed
           /\ docs' = AfterRollback(docs, {rq.document})
           /\ Done(r, Finish(Reached(rq, "FAILED"),
                             [IngestFailure(rq, "embed") EXCEPT
                                !.error = "embedding error"]))
        \/ /\ \E embs \in results :
                Step(r, [Reached(rq, "EMBEDDED") EXCEPT !.pc = "persist",
                                                        !.embeddings = embs])
           /\ UNCHANGED docs
  /\ UNCHANGED <<files, chunks, nextDocId, nextChunkId, catalog, ingested, deleted, svc>>

\* ingest_document with an embedding service that returns a vector per text
IngestEmbed(r) ==
  IngestEmbedWith(r, EmbeddingsOf(Len(req[r].chunk_list)))

\* ingest_document with an embedding service that may return fewer
IngestEmbedAny(r) ==
  IngestEmbedWith(r, AnyEmbeddings(Len(req[r].chunk_list)))

\* ingest_document: add the chunk records, db.commit
IngestPersist(r) ==
  /\ req[r].pc = "persist"
  /\ LET rq == req[r]
         rows == ChunkRecords(rq.document.id, rq.chunk_list, rq.embeddings,
                              nextChunkId)
     IN \/ /\ nextChunkId + Cardinality(rows) - 1 <= MaxChunkId
           /\ docs' = AfterCommit(docs, {rq.document})
           /\ chunks' = AfterCommit(chunks, rows)
           /\ nextChunkId' = nextChunkId + Cardinality(rows)
           /\ ingested' = (rq.document.id :> ChunkIds(rows)) @@ ingested
           /\ Done(r, Finish(Reached(rq, "PERSISTED"), IngestSuccess(rq)))
        \/ /\ docs' = AfterRollback(docs, {rq.document})
           /\ chunks' = AfterRollback(chunks, rows)
           /\ UNCHANGED <<nextChunkId, ingested>>
           /\ Done(r, Finish(Reached(rq, "FAILED"),
                             [IngestFailure(rq, "commit") EXCEPT
                                !.error = "commit error"]))
  /\ UNCHANGED <<files, nextDocId, catalog, deleted, svc>>

\* db.query(Document).filter(Document.id == document_id).first()
FindDocument(D, document_id) == {d \in D : d.id = document_id}

\* ---------------------------------------------------------- delete_document
\* find the document, DELETE its chunks, unlink the file, db.delete(document)
DeleteBegin(r, document_id) ==
  /\ Free(r)
  /\ LET rq == [IdleReq EXCEPT !.kind = "delete", !.document_id = document_id]
         document == FindDocument(docs, document_id)
     IN  IF document = {}
         THEN /\ Done(r, Finish(rq, [NoResp EXCEPT
                                  !.status = RaisedStatus(DeleteNotFoundStatus),
                                  !.stage = "find",
                                  !.document_id = document_id]))
              /\ docs' = AfterRollback(docs, {})
              /\ UNCHANGED files
         ELSE LET doc == CHOOSE d \in document : TRUE
              IN /\ files' = [files EXCEPT ![doc.file_path] = NoFile]
                 /\ Step(r, [rq EXCEPT !.pc = "del_commit", !.document = doc,
                                  !.matched = ChunkIds(ChunksOf(chunks, document_id))])
                 /\ UNCHANGED docs
  /\ UNCHANGED <<chunks, nextDocId, nextChunkId, catalog, ingested, deleted, svc>>

\* (variant) only the first chunk of the document is deleted
ChunksAfterDeleteFirst(C, matched) ==
  {c \in C : c.id \notin matched \/ \E o \in matched : o < c.id}

\* (variant) the document row is not deleted
DocsAfterDeleteKept(D, document_id) == D

\* rows left once the DELETE statements of a delete_document are committed
ChunksAfterDelete(C, matched) == {c \in C : c.id \notin matched}
DocsAfterDelete(D, document_id) == {d \in D : d.id # document_id}

\* db.commit() of delete_document, or its failure and db.rollback()
DeleteCommit(r) ==
  /\ req[r].pc = "del_commit"
  /\ LET rq == req[r]
     IN \/ /\ chunks' = ChunksAfterDelete(chunks, rq.matched)
           /\ docs' = DocsAfterDelete(docs, rq.document_id)
           /\ deleted' = deleted \cup {rq.document_id}
           /\ Done(r, Finish(rq, [NoResp EXCEPT !.status = Status("HTTP_204_NO_CONTENT"),
                                           !.document_id = rq.document_id]))
        \/ /\ chunks' = AfterRollback(chunks, {})
           /\ docs' = AfterRollback(docs, {})
           /\ UNCHANGED deleted
           /\ Done(r, Finish(rq, [NoResp EXCEPT
                               !.status = Status("HTTP_500_INTERNAL_SERVER_ERROR"),
                               !.stage = "commit",
                               !.document_id = rq.document_id]))
  /\ UNCHANGED <<files, nextDocId, nextChunkId, catalog, ingested, svc>>

\* ------------------------------------------------------------- get_document
GetDocument(r, document_id) ==
  /\ Free(r)
  /\ LET rq == [IdleReq EXCEPT !.kind = "get", !.document_id = document_id]
         result == FindDocument(docs, document_id)
     IN  Done(r, IF result = {}
           THEN Finish(rq, [NoResp EXCEPT !.status = RaisedStatus(GetNotFoundStatus),
                                          !.stage = "find",
                                          !.document_id = document_id])
           ELSE Finish(rq, [NoResp EXCEPT
                  !.status = "200",
                  !.document_id = document_id,
                  !.filename = (CHOOSE d \in result : TRUE).filename,
                  !.chunk_count = Cardinality(ChunksOf(chunks, document_id))]))
  /\ UNCHANGED <<files, docs, chunks, nextDocId, nextChunkId, catalog, ingested, deleted, svc>>

\* ----------------------------------------------------------- list_documents
\* (variant) an inner join: a document without chunks has no row
ListRowsInner(D, C) ==
  {[id |-> d.id, filename |-> d.filename, file_type |-> d.file_type,
    chunk_count |-> Cardinality(ChunksOf(C, d.id))]
   : d \in {x \in D : ChunksOf(C, x.id) # {}}}

\* db.query(Document, func.count(DocumentChunk.id)).outerjoin(DocumentChunk,
\*   Document.id == DocumentChunk.document_id).group_by(Document.id)
\* one row per document id, with the number of chunk rows joined to it
ListRows(D, C) ==
  {[id |-> d.id, filename |-> d.filename, file_type |-> d.file_type,
    chunk_count |-> Cardinality(ChunksOf(C, d.id))] : d \in D}

\* .all(): the rows, in an order the server is free to choose
RECURSIVE Orderings(_)
Orderings(S) ==
  IF S = {} THEN {<<>>}
  ELSE UNION {{<<x>> \o rest : rest \in Orderings(S \ {x})} : x \in S}

\* list_documents: the listing, or a 500 when the statement fails
ListDocuments(r) ==
  /\ Free(r)
  /\ LET rq == [IdleReq EXCEPT !.kind = "list"]
     IN \/ \E document_list \in Orderings(ListRows(docs, chunks)) :
             Done(r, Finish(rq, [NoResp EXCEPT !.status = "200",
                                               !.listing = document_list]))
        \/ Done(r, Finish(rq, [NoResp EXCEPT
                                 !.status = Status("HTTP_500_INTERNAL_SERVER_ERROR"),
                                 !.stage = "list"]))
  /\ UNCHANGED <<files, docs, chunks, nextDocId, nextChunkId, catalog, ingested, deleted, svc>>

\* ------------------------------------------------------------- health_check
\* How db.execute(text("SELECT 1")) may end.
Probes == {"ok", "OperationalError"}

\* (variant) the status does not look at the probe
HealthStatusAlways(db_connected) == "healthy"

\* status="healthy" if db_connected else "unhealthy"
HealthStatus(db_connected) == IF db_connected THEN "healthy" ELSE "unhealthy"

\* health_check: probe the connection inside try/except, then build the
\* HealthResponse from the outcome
HealthCheck(r, probe) ==
  /\ Free(r)
  /\ LET db_connected == (probe = "ok")
     IN Done(r, Finish([IdleReq EXCEPT !.kind = "health", !.probe = probe],
                       [NoResp EXCEPT !.status = "200",
                                      !.health = HealthStatus(db_connected),
                                      !.database_connected = db_connected]))
  /\ UNCHANGED <<files, docs, chunks, nextDocId, nextChunkId, catalog, ingested, deleted, svc>>

\* ------------------------------------------------------------------ retrieval
\* top_k = top_k or self.top_k
ResolveTopK(top_k) == PyOr(top_k, top_k_results)
\* similarity_threshold = similarity_threshold or self.similarity_threshold
ResolveThreshold(threshold) == PyOr(threshold, similarity_threshold)

\* (variant) the WHERE clause is missing
MatchingAll(C, D, q, threshold) == {c \in C : c.document_id \in DocIds(D)}

\* FROM <chunks> dc JOIN documents d ON dc.document_id = d.id
\* WHERE 1 - (dc.embedding <=> :query_embedding) >= :threshold
Matching(C, D, q, threshold) ==
  {c \in C : /\ c.document_id \in DocIds(D)
             /\ PgGe(Similarity(c.embedding, q), Tenths(threshold))}

\* the SELECT list: each row with its similarity to the query
Scored(rows, q) ==
  {[chunk_id |-> c.id, document_id |-> c.document_id,
    chunk_index |-> c.chunk_index,
    similarity_score |-> Similarity(c.embedding, q)] : c \in rows}

\* ORDER BY dc.embedding <=> :query_embedding LIMIT :top_k
\* every list of the top_k first rows in which no row comes after a strictly
\* farther one; rows at the same distance come in an order the server is free
\* to choose.
RECURSIVE OrderByLimit(_, _)
OrderByLimit(S, top_k) ==
  IF S = {} \/ top_k = 0 THEN {<<>>}
  ELSE LET nearest == {c \in S : \A o \in S :
                         ~PgDistLess(o.similarity_score, c.similarity_score)}
       IN UNION {{<<c>> \o rest : rest \in OrderByLimit(S \ {c}, top_k - 1)}
                 : c \in nearest}

\* the lists db.execute(sql_query, ...) may hand back
SearchResults(C, D, q, top_k, threshold) ==
  OrderByLimit(Scored(Matching(C, D, q, threshold), q), top_k)

\* retrieval_relevant_chunks: resolve the parameters, embed the query (no
\* call and a zero vector for blank text; the call may fail), run the SQL (which
\* fails when the relation it names does not exist).  All its outcomes.
retrieval_relevant_chunks(C, D, relations, blank, top_k, threshold) ==
  LET k == ResolveTopK(top_k)
      t == ResolveThreshold(threshold)
      asked == [NoQuery EXCEPT !.top_k = top_k, !.threshold = threshold,
                               !.used_top_k = k, !.used_threshold = t]
  IN  (IF blank THEN {} ELSE {[raised |-> TRUE, stage |-> "embed", qry |-> asked]})
      \cup
      UNION {IF SqlChunkRelation \notin relations
             THEN {[raised |-> TRUE, stage |-> "search",
                    qry |-> [asked EXCEPT !.embedding = q]]}
             ELSE {[raised |-> FALSE, stage |-> "",
                    qry |-> [asked EXCEPT !.embedding = q, !.searched = TRUE,
                                          !.found = found]]
                   : found \in SearchResults(C, D, q, k, t)}
             : q \in (IF blank THEN {ZeroVec} ELSE QueryVecs)}

\* generate_answer: the canned text without any call when nothing was
\* retrieved; otherwise the settings lookup, then the chat completion, which
\* may fail.  All its outcomes.
generate_answer(retrieved_chunks) ==
  IF retrieved_chunks = <<>>
  THEN {[raised |-> FALSE, answer |-> "canned", llm_called |-> FALSE]}
  ELSE IF "openai_api_key" \notin SettingsFields
  THEN {[raised |-> TRUE, answer |-> "", llm_called |-> FALSE]}
  ELSE {[raised |-> FALSE, answer |-> "generated", llm_called |-> TRUE],
        [raised |-> TRUE, answer |-> "", llm_called |-> TRUE]}

\* The pipeline's query entry point: retrieve, then answer from what was
\* retrieved; a failure of either step is the caller's to see.
query(C, D, relations, blank, top_k, threshold) ==
  UNION {IF ret.raised
         THEN {[raised |-> TRUE, stage |-> ret.stage, qry |-> ret.qry,
                answer |-> "", retrieved |-> <<>>]}
         ELSE {[raised |-> gen.raised,
                stage |-> IF gen.raised THEN "generate" ELSE "",
                qry |-> [ret.qry EXCEPT !.llm_called = gen.llm_called],
                answer |-> gen.answer,
                retrieved |-> IF gen.raised THEN <<>> ELSE ret.qry.found]
               : gen \in generate_answer(ret.qry.found)}
         : ret \in retrieval_relevant_chunks(C, D, relations, blank, top_k, threshold)}

\* query_knowledge_base: the pipeline's answer, or a 500 for any exception
Query(r, blank, top_k, threshold) ==
  /\ Free(r)
  /\ \E out \in query(chunks, docs, catalog, blank, top_k, threshold) :
       Done(r, Finish([IdleReq EXCEPT !.kind = "query", !.qry = out.qry],
                      [NoResp EXCEPT
                         !.status = IF out.raised
                                    THEN Status("HTTP_500_INTERNAL_SERVER_ERROR")
                                    ELSE "200",
                         !.stage = out.stage,
                         !.answer = out.answer,
                         !.retrieved = out.retrieved]))
  /\ UNCHANGED <<files, docs, chunks, nextDocId, nextChunkId, catalog, ingested, deleted, svc>>

\* The answer of the latest finished request leaves the server.
Respond ==
  /\ ~Delivered
  /\ last' = IdleReq
  /\ UNCHANGED <<files, docs, chunks, nextDocId, nextChunkId, catalog, req,
                 ingested, deleted, svc>>

\* ------------------------------------------------- embedding service calls
OtherVars == <<files, docs, chunks, nextDocId, nextChunkId, catalog, req, last,
               ingested, deleted>>

\* generate_embedding(text): the zero vector for blank text, else one external
\* call, whose result is returned or whose exception is raised again
GenerateEmbedding(text) ==
  /\ svc.pc = "idle"
  /\ LET cleaned == Clean(text)
         s == [IdleSvc EXCEPT !.op = "single", !.texts = <<text>>]
     IN IF cleaned = <<>>
        THEN svc' = [s EXCEPT !.pc = "returned", !.result = Some(ZeroVector)]
        ELSE \/ svc' = [s EXCEPT !.pc = "returned", !.calls = <<cleaned>>,
                          !.result = Some(embeddings_create(<<cleaned>>)[1].embedding)]
             \/ \E k \in FailureKinds :
                  svc' = [s EXCEPT !.pc = "raised", !.calls = <<cleaned>>,
                            !.failure = Some(Exception(k)),
                            !.error = Some(Reraise(Exception(k)))]
  /\ UNCHANGED OtherVars

\* (variant) the groups that succeeded are returned
BatchFailedPartial(s, e) ==
  [s EXCEPT !.pc = "returned", !.result = Some(s.all_embeddings)]

\* generate_embedding_batch: the except clause, reached from inside the loop
BatchFailed(s, e) == [s EXCEPT !.pc = "raised", !.error = Some(Reraise(e))]

\* generate_embedding_batch: the loop is over, return all_embeddings
BatchLoop(s) ==
  IF s.i < Len(s.texts) THEN [s EXCEPT !.pc = "call"]
  ELSE [s EXCEPT !.pc = "returned", !.result = Some(s.all_embeddings)]

\* generate_embedding_batch(texts, batch_size) up to its first external call
GenerateEmbeddingBatch(texts, size) ==
  /\ svc.pc = "idle"
  /\ svc' = BatchLoop([IdleSvc EXCEPT !.op = "batch", !.texts = texts,
                                      !.batch_size = size])
  /\ UNCHANGED OtherVars

\* one pass of the loop: clean the group, call the model, extend the result
BatchCall ==
  /\ svc.pc = "call"
  /\ LET batch == Batch(svc.texts, svc.i, svc.batch_size)
         cleaned_batch == [k \in 1..Len(batch) |-> Clean(batch[k])]
         sent == [svc EXCEPT !.calls = Append(svc.calls, cleaned_batch)]
     IN \/ LET data == embeddings_create(cleaned_batch)
               batch_embeddings == [k \in 1..Len(data) |-> data[k].embedding]
           IN svc' = BatchLoop([sent EXCEPT
                        !.all_embeddings = svc.all_embeddings \o batch_embeddings,
                        !.i = svc.i + svc.batch_size])
        \/ \E k \in FailureKinds :
             svc' = BatchFailed([sent EXCEPT !.failure = Some(Exception(k))],
                                Exception(k))
  /\ UNCHANGED OtherVars

\* the caller has its result or its exception
EmbedReturn ==
  /\ svc.pc \in {"returned", "raised"}
  /\ svc' = IdleSvc
  /\ UNCHANGED OtherVars

\* --------------------------------------------------------------- behaviour
DocIdArgs == 1..MaxDocId
SizeArgs == {1, MAX_FILE_SIZE, MAX_FILE_SIZE + 1}
TopKArgs == {None, Some(1)}
ThresholdArgs == {None, Some(0), Some(10)}

Reqs == DOMAIN req

\* Requests that write: uploads, ingestions, deletions, and look-ups by id.
Next ==
  \/ \E r \in Reqs, name \in FileNames, size \in SizeArgs :
       UploadDocument(r, name, size)
  \/ \E r \in Reqs, path \in FileNames, outcome \in Outcomes :
       IngestBegin(r, path, outcome)
  \/ \E r \in Reqs : IngestEmbed(r)
  \/ \E r \in Reqs : IngestPersist(r)
  \/ \E r \in Reqs, d \in DocIdArgs : DeleteBegin(r, d)
  \/ \E r \in Reqs : DeleteCommit(r)
  \/ \E r \in Reqs, d \in DocIdArgs : GetDocument(r, d)
  \/ \E r \in Reqs : ListDocuments(r)
  \/ \E r \in Reqs, probe \in Probes : HealthCheck(r, probe)
  \/ Respond

Spec == Init /\ [][Next]_vars

\* The same behaviours when no handler stops half-way: each request runs on a
\* worker thread of its own, its embedding call and its commit come back (with
\* a result or an exception), and every answer is sent.
SpecLive ==
  /\ Init /\ [][Next]_vars
  /\ WF_vars(Respond)
  /\ \A r \in 1..NumReq : SF_vars(IngestEmbed(r)) /\ SF_vars(IngestPersist(r))

\* Queries against the stores that ingestions and deletions build.  A query
\* reads committed rows only, in one statement.
NextQuery ==
  \/ \E r \in Reqs, path \in FileNames, outcome \in Outcomes :
       IngestBegin(r, path, outcome)
  \/ \E r \in Reqs : IngestEmbed(r)
  \/ \E r \in Reqs : IngestPersist(r)
  \/ \E r \in Reqs, d \in DocIdArgs : DeleteBegin(r, d)
  \/ \E r \in Reqs : DeleteCommit(r)
  \/ \E r \in Reqs, blank \in BOOLEAN, k \in TopKArgs, t \in ThresholdArgs :
       Query(r, blank, k, t)
  \/ Respond

SpecQuery == InitQuery /\ [][NextQuery]_vars

\* The embedding service on its own, called with texts of every shape.
NextEmbed ==
  \/ \E text \in Texts : GenerateEmbedding(text)
  \/ \E texts \in SeqsUpTo(BatchTexts, MaxTexts), size \in BatchSizes :
       GenerateEmbeddingBatch(texts, size)
  \/ BatchCall
  \/ EmbedReturn

SpecEmbed == Init /\ [][NextEmbed]_vars

\* Ingestion alone, with an embedding call that may return any number of
\* vectors up to the number of texts.
NextIngestAny ==
  \/ \E r \in Reqs, path \in FileNames, outcome \in Outcomes :
       IngestBegin(r, path, outcome)
  \/ \E r \in Reqs : IngestEmbedAny(r)
  \/ \E r \in Reqs : IngestPersist(r)
  \/ Respond

SpecIngestAny == Init /\ [][NextIngestAny]_vars

\* ---------------------------------------------------------------- sessions

\* SessionLocal(): a new session; its transaction begins with its first use.
SessionLocal == [NoSession EXCEPT !.tx = "open"]

\* session.commit() that succeeds / that the database refuses
Commit(s) == [s EXCEPT !.calls = Append(@, "commit"), !.tx = "committed"]
CommitFailed(s) == [s EXCEPT !.calls = Append(@, "commit")]

\* session.rollback()
Rollback(s) == [s EXCEPT !.calls = Append(@, "rollback"), !.tx = "rolled back"]

\* session.close(): a transaction still open is rolled back, the connection
\* is released.
Close(s) ==
  [s EXCEPT !.calls = Append(@, "close"), !.closed = TRUE,
            !.tx = IF @ = "open" THEN "rolled back" ELSE @]

\* How the block using a session ends: normally, with an Exception, or with
\* a BaseException that is not an Exception (KeyboardInterrupt).
BlockExits == {"normal", "ValueError", "KeyboardInterrupt"}
IsException(exit) == exit = "ValueError"
CommitOutcomes == {"ok", "OperationalError"}

\* (variant) get_session without its finally clause: closed on normal exit only
GetSessionExitNoFinally(s, exit, commit) ==
  IF exit = "normal" /\ commit = "ok" THEN Close(Commit(s))
  ELSE IF exit = "normal" THEN Rollback(CommitFailed(s))
  ELSE IF IsException(exit) THEN Rollback(s)
  ELSE s

\* get_session after its yield: commit on normal exit; rollback in the except
\* clause, which also catches a failing commit; close in the finally clause.
GetSessionExit(s, exit, commit) ==
  IF exit = "normal" /\ commit = "ok" THEN Close(Commit(s))
  ELSE IF exit = "normal" THEN Close(Rollback(CommitFailed(s)))
  ELSE IF IsException(exit) THEN Close(Rollback(s))
  ELSE Close(s)

\* get_db after its yield: close in the finally clause, nothing else.
GetDbExit(s, exit, commit) == Close(s)

\* What leaves the block: nothing, the block's exception, or the commit's.
SessionRaised(via, exit, commit) ==
  IF exit # "normal" THEN exit
  ELSE IF via = "get_session" /\ commit # "ok" THEN commit
  ELSE ""

SessionProviders == {"get_session", "get_db"}

\* with db_manager.get_session() as session / db: Session = Depends(get_db)
SessionOpen(r, via) ==
  /\ Free(r)
  /\ Step(r, [IdleReq EXCEPT !.pc = "block", !.kind = "session", !.via = via,
                             !.session = SessionLocal])
  /\ UNCHANGED <<files, docs, chunks, nextDocId, nextChunkId, catalog,
                 ingested, deleted, svc>>

\* The block writes through the session: session.add(Document(...)) and
\* session.flush().
SessionAdd(r, name) ==
  /\ req[r].pc = "block"
  /\ req[r].document = NoDoc
  /\ nextDocId <= MaxDocId
  /\ LET document == [id |-> nextDocId, filename |-> name,
                      file_path |-> name, file_type |-> DropFirst(Suffix(name)),
                      content |-> <<>>, extra_metadata |-> None]
     IN /\ docs' = AfterFlush(docs, document)
        /\ nextDocId' = nextDocId + 1
        /\ Step(r, [req[r] EXCEPT !.document = document,
                                  !.document_id = document.id])
  /\ UNCHANGED <<files, chunks, nextChunkId, catalog, ingested, deleted, svc>>

\* The block ends and control returns into get_session or get_db.
SessionExit(r, exit, commit) ==
  /\ req[r].pc = "block"
  /\ LET rq == req[r]
         s == IF rq.via = "get_session"
              THEN GetSessionExit(rq.session, exit, commit)
              ELSE GetDbExit(rq.session, exit, commit)
         pending == IF rq.document = NoDoc THEN {} ELSE {rq.document}
         raised == SessionRaised(rq.via, exit, commit)
     IN /\ docs' = IF s.tx = "committed" THEN AfterCommit(docs, pending)
                   ELSE AfterRollback(docs, pending)
        /\ Done(r, Finish([rq EXCEPT !.session = [s EXCEPT !.exit = exit]],
                          [NoResp EXCEPT
                             !.status = IF raised = "" THEN "returned"
                                        ELSE "raised",
                             !.error = raised]))
  /\ UNCHANGED <<files, chunks, nextDocId, nextChunkId, catalog, ingested,
                 deleted, svc>>

NextSession ==
  \/ \E r \in Reqs, via \in SessionProviders : SessionOpen(r, via)
  \/ \E r \in Reqs, name \in FileNames : SessionAdd(r, name)
  \/ \E r \in Reqs, exit \in BlockExits, commit \in CommitOutcomes :
       SessionExit(r, exit, commit)
  \/ Respond

SpecSession == Init /\ [][NextSession]_vars

\* ---------------------------------------------------- document processor

\* The page texts process_file is given by the loader.
PageTexts == {<<>>, <<" ">>, <<"a">>, <<" ", "a", "\n">>, <<"b", " ", "b">>}

\* process_file on the loaded pages: the joined text and the chunks.
ProcessFile(pages) ==
  /\ svc.pc = "idle"
  /\ svc' = [IdleSvc EXCEPT
               !.pc = "returned", !.op = "process", !.texts = pages,
               !.result = Some([full_content |-> JoinPages(pages),
                                chunks |-> chunk_documents(pages)])]
  /\ UNCHANGED OtherVars

NextChunk ==
  \/ \E pages \in SeqsUpTo(PageTexts, MaxPages) : ProcessFile(pages)
  \/ EmbedReturn

SpecChunk == Init /\ [][NextChunk]_vars

\* =================================================================== claims

\* C1: in every committed state, an ingestion's document row is visible
\* together with all the chunk rows that ingestion wrote, or not at all: no
\* ingestion still under way has its document or any chunk visible, every
\* visible document has all its ingestion's chunks visible, and every visible
\* chunk belongs to the ingestion of a visible document.
AtomicIngestion ==
  /\ \A r \in DOMAIN req :
       req[r].pc \in {"embed", "persist"} =>
         /\ req[r].document.id \notin DocIds(docs)
         /\ ChunksOf(chunks, req[r].document.id) = {}
  /\ \A d \in docs :
       /\ d.id \in DOMAIN ingested
       /\ ingested[d.id] \subseteq ChunkIds(ChunksOf(chunks, d.id))
  /\ \A c \in chunks :
       /\ c.document_id \in DocIds(docs)
       /\ c.id \in ingested[c.document_id]

\* C1 witness: a two-chunk document is visible while another ingestion has
\* flushed its document and is about to commit.
AtomicIngestionWitness ==
  /\ \E d \in docs : Cardinality(ingested[d.id]) = 2
  /\ \E r \in DOMAIN req : req[r].pc = "persist" /\ Len(req[r].chunk_list) = 2

IngestionFails ==
  /\ last = IdleReq /\ last' # IdleReq
  /\ last'.kind \in {"ingest", "upload"}
  /\ last'.resp.status \in {"raised", "500"}

\* C2: a step in which ingest_document fails (at loading, chunking, embedding
\* or commit) leaves the committed document and chunk rows as they were and
\* leaves no row of that ingestion; the steps an ingestion takes before it
\* commits do not change the committed rows either.
RollbackOnFailure ==
  [][/\ IngestionFails =>
          /\ docs' = docs
          /\ chunks' = chunks
          /\ last'.document_id \notin DocIds(docs')
          /\ ChunksOf(chunks', last'.document_id) = {}
     /\ \A r \in DOMAIN req :
          (req'[r] # req[r] /\ req'[r].pc \in {"embed", "persist"}) =>
             (docs' = docs /\ chunks' = chunks)]_vars

\* C2 witness: an ingestion that had flushed its document failed at the
\* embedding call while another document was stored.
RollbackOnFailureWitness ==
  /\ last.kind = "ingest"
  /\ last.resp.stage = "embed"
  /\ last.document_id > 0
  /\ docs # {}

\* C3 (as claimed): an upload named *.txt or *.pdf, in any letter case, of a
\* size within the cap is not rejected by validation; when its ingestion
\* succeeds the response carries the document id, the filename and the chunk
\* count.
UploadAccepted ==
  (/\ last.kind = "upload"
   /\ Lower(Suffix(last.filename)) \in {".txt", ".pdf"}
   /\ last.size <= MAX_FILE_SIZE)
  => /\ last.resp.stage \notin {"extension", "size"}
     /\ last.resp.status = "201" =>
          /\ last.resp.document_id \in DocIds(docs)
          /\ last.resp.filename = last.filename
          /\ last.resp.chunk_count = Len(last.chunk_list)

\* C4 (as claimed): delete_document of an id without a document row answers
\* not-found, not a server error.
DeleteUnknownNotFound ==
  (last.kind = "delete" /\ last.resp.stage = "find") => last.resp.status = "404"

NoOrphanChunks == \A c \in chunks : \E d \in docs : d.id = c.document_id

\* C6 witness: a document with chunks was deleted while chunks of another
\* document remain.
NoOrphanChunksWitness ==
  /\ \E d \in deleted : d \in DOMAIN ingested /\ ingested[d] # {}
  /\ chunks # {}

\* C7 (as claimed): the search runs with the caller's top_k and
\* similarity_threshold whenever the caller supplies them, 0.0 included, and
\* with the configured defaults only when the caller supplies none.
CallerParametersUsed ==
  (last.kind = "query" /\ last.qry.searched) =>
    /\ last.qry.used_top_k =
         IF last.qry.top_k = None THEN top_k_results ELSE last.qry.top_k[1]
    /\ last.qry.used_threshold =
         IF last.qry.threshold = None THEN similarity_threshold
         ELSE last.qry.threshold[1]

ThresholdAndLimit ==
  (last.kind = "query" /\ last.qry.searched) =>
    /\ Len(last.qry.found) <= last.qry.used_top_k
    /\ \A i \in 1..Len(last.qry.found) :
         ~SimLess(last.qry.found[i].similarity_score,
                  Tenths(last.qry.used_threshold))

\* C9 witness: a search that returned top_k chunks although more chunks
\* reached the threshold, over a store that also holds a chunk below it.
ThresholdAndLimitWitness ==
  /\ last.kind = "query" /\ last.qry.searched
  /\ Len(last.qry.found) = last.qry.used_top_k
  /\ Cardinality(Matching(chunks, docs, last.qry.embedding,
                          last.qry.used_threshold)) > last.qry.used_top_k
  /\ \E c \in chunks : SimLess(Similarity(c.embedding, last.qry.embedding),
                               Tenths(last.qry.used_threshold))

\* C10 (as claimed): a query whose embedding succeeded and for which nothing
\* matches - any such query when no document is stored - is answered 200 with
\* the canned text and an empty chunk list, without a call of the chat model.
NoMatchesCanned ==
  (/\ last.kind = "query"
   /\ last.resp.stage # "embed"
   /\ docs = {} \/ (last.qry.searched /\ last.qry.found = <<>>))
  => /\ last.resp.status = "200"
     /\ last.resp.answer = "canned"
     /\ last.resp.retrieved = <<>>
     /\ ~last.qry.llm_called

\* C11: for every stored document with N stored chunk rows, the chunk_index
\* values of its rows are exactly 0..N-1, each once, and the row with index k
\* holds the text of the (k+1)-th chunk the chunking pass produced for the
\* document, rows being inserted in that order.
DenseChunkIndex ==
  \A d \in docs :
    LET rows == ChunksOf(chunks, d.id)
        N == Cardinality(rows)
        produced == chunk_documents(d.content)
    IN /\ {c.chunk_index : c \in rows} = 0..(N - 1)
       /\ \A c1, c2 \in rows : c1.chunk_index = c2.chunk_index => c1 = c2
       /\ N <= Len(produced)
       /\ \A c \in rows :
            /\ c.chunk_text = produced[c.chunk_index + 1].text
            /\ produced[c.chunk_index + 1].chunk_index = c.chunk_index
       /\ \A c1, c2 \in rows : c1.chunk_index < c2.chunk_index => c1.id < c2.id

\* C11 witness: two documents are stored with two chunk rows each, the second
\* one's rows not starting at chunk id 1.
DenseChunkIndexWitness ==
  /\ Cardinality(docs) = 2
  /\ \A d \in docs : Cardinality(ChunksOf(chunks, d.id)) = 2

SumCounts(listing) ==
  LET RECURSIVE Sum(_)
      Sum(k) == IF k = 0 THEN 0 ELSE listing[k].chunk_count + Sum(k - 1)
  IN Sum(Len(listing))

\* C12: a list_documents that answers has one entry per stored document row,
\* no more and no fewer; each entry's chunk_count is the number of stored
\* chunk rows of that document, 0 for a document without chunks; the counts
\* add up to the number of stored chunk rows.
ListCountsChunks ==
  (last.kind = "list" /\ last.resp.status = "200") =>
    LET L == last.resp.listing
    IN /\ Len(L) = Cardinality(docs)
       /\ {L[k].id : k \in 1..Len(L)} = DocIds(docs)
       /\ \A k \in 1..Len(L) :
            L[k].chunk_count = Cardinality({c \in chunks : c.document_id = L[k].id})
       /\ SumCounts(L) = Cardinality(chunks)

\* C12 witness: the listing shows a document without chunks before one with
\* two chunks.
ListCountsChunksWitness ==
  /\ last.kind = "list"
  /\ Len(last.resp.listing) = 2
  /\ last.resp.listing[1].chunk_count = 0
  /\ last.resp.listing[2].chunk_count = 2

\* C13: a generate_embedding_batch call that returns has sent the cleaned texts
\* in consecutive groups, in input order, each of 1..batch_size texts and all
\* but the last of exactly batch_size, one external call per group; its output
\* is as long as texts and output[i] is the embedding of texts[i].
BatchPreservesOrder ==
  (svc.op = "batch" /\ svc.pc = "returned") =>
    LET n == Len(svc.texts)
        out == svc.result[1]
    IN /\ Len(out) = n
       /\ \A k \in 1..n : out[k] = Vector(Clean(svc.texts[k]))
       /\ Flatten(svc.calls) = [k \in 1..n |-> Clean(svc.texts[k])]
       /\ \A c \in 1..Len(svc.calls) :
            /\ Len(svc.calls[c]) \in 1..svc.batch_size
            /\ c < Len(svc.calls) => Len(svc.calls[c]) = svc.batch_size

\* C13 witness: three texts, not all equal, embedded in groups of two: two
\* calls, the second for a group of one.
BatchPreservesOrderWitness ==
  /\ svc.op = "batch" /\ svc.pc = "returned"
  /\ Len(svc.texts) = 3 /\ svc.batch_size = 2
  /\ svc.texts[1] # svc.texts[3]
  /\ Len(svc.calls) = 2

\* C14: once the external call has failed for a group of a
\* generate_embedding_batch call, the call has raised and returns nothing, not
\* even the embeddings of the groups before, and the only step left is the
\* caller receiving the exception: no further group is sent.
BatchFailureAborts ==
  [][/\ (svc'.op = "batch" /\ svc'.failure # None) =>
          (svc'.pc = "raised" /\ svc'.result = None)
     /\ (svc.op = "batch" /\ svc.failure # None) => svc' = IdleSvc]_vars

\* C14 witness: the call failed for the second of three groups, after the
\* first group's embedding had been collected.
BatchFailureAbortsWitness ==
  /\ svc.op = "batch" /\ svc.pc = "raised"
  /\ svc.all_embeddings # <<>>
  /\ Len(svc.calls) = 2
  /\ svc.i + svc.batch_size < Len(svc.texts)

\* C15: generate_embedding of a text made of blanks and newlines only (the
\* empty text included) returns a vector of dimension entries, all zero, and
\* makes no external call.
BlankTextZeroVector ==
  (/\ svc.op = "single" /\ svc.pc \in {"returned", "raised"}
   /\ \A k \in 1..Len(svc.texts[1]) : svc.texts[1][k] \in {" ", "\n"})
  => /\ svc.pc = "returned"
     /\ svc.calls = <<>>
     /\ Len(svc.result[1]) = dimension
     /\ \A k \in 1..dimension : svc.result[1][k] = 0

\* C15 witness: the text is a blank followed by a newline.
BlankTextZeroVectorWitness ==
  /\ svc.op = "single" /\ svc.pc = "returned"
  /\ svc.texts = << <<" ", "\n">> >>

Pipeline == <<"LOADED", "CHUNKED", "EMBEDDED", "PERSISTED">>

\* a run of stages: a prefix of the pipeline, or a proper prefix and FAILED
IsStageTrace(t) ==
  \E k \in 0..Len(Pipeline) :
    \/ t = SubSeq(Pipeline, 1, k)
    \/ k < Len(Pipeline) /\ t = Append(SubSeq(Pipeline, 1, k), "FAILED")

StagesInOrder ==
  /\ \A r \in DOMAIN req :
       /\ req[r].pc = "embed" =>
            /\ req[r].stages = SubSeq(Pipeline, 1, 2)
            /\ req[r].embeddings = <<>>
            /\ req[r].document \notin docs
       /\ req[r].pc = "persist" =>
            /\ req[r].stages = SubSeq(Pipeline, 1, 3)
            /\ Len(req[r].embeddings) = Len(req[r].chunk_list)
            /\ req[r].document \notin docs
  /\ (last.kind \in {"ingest", "upload"} /\ last.resp.stage \notin {"extension", "size"}) =>
       LET final == last.stages[Len(last.stages)]
       IN /\ last.stages # <<>>
          /\ IsStageTrace(last.stages)
          /\ final \in {"PERSISTED", "FAILED"}
          /\ final = "PERSISTED" <=> last.resp.status \in {"returned", "201"}
          /\ final = "FAILED" <=> last.resp.status \in {"raised", "500"}
          /\ final = "PERSISTED" =>
               /\ last.document \in docs
               /\ Len(last.embeddings) = Len(last.chunk_list)
               /\ Cardinality(ChunksOf(chunks, last.document.id)) = Len(last.chunk_list)
          /\ final = "FAILED" =>
               /\ last.document \notin docs
               /\ ChunksOf(chunks, last.document.id) = {}

\* C17: an ingestion goes through LOADED, CHUNKED, EMBEDDED, PERSISTED in that
\* order, skipping none; it is PERSISTED (document and chunk rows committed)
\* only after an embedding was produced for every chunk; from any stage before
\* PERSISTED it may go to FAILED, with nothing committed; and every ingestion
\* that was started ends, in PERSISTED or in FAILED and never in both.
StageOrder ==
  /\ []StagesInOrder
  /\ \A r \in 1..NumReq :
       (req[r].pc \in {"embed", "persist"}) ~> (req[r].pc = "idle")

\* C17 witness: an ingestion of two chunks ended PERSISTED after another one
\* had been stopped at the embedding stage.
StageOrderWitness ==
  /\ last.kind = "ingest"
  /\ last.stages = Pipeline
  /\ Len(last.embeddings) = 2
  /\ last.document.id = 2
  /\ Cardinality(docs) = 1

\* C18: ingest_document on a file whose extension is neither .pdf nor .txt
\* fails in its first step with the unsupported-file-type error: no Document
\* was created, no embedding call made, and the document and chunk rows and
\* both id sequences are what they were; no such request is ever found at a
\* later stage.
UnsupportedTypeFailsFirst ==
  [][/\ (/\ last = IdleReq /\ last' # IdleReq
         /\ last'.kind = "ingest"
         /\ Lower(Suffix(last'.file_path)) \notin {".pdf", ".txt"})
        => /\ last'.resp.status = "raised"
           /\ last'.resp.error = "ValueError: Unsupported file type"
           /\ last'.stages = <<"FAILED">>
           /\ last'.document = NoDoc
           /\ last'.embed_calls = 0
           /\ last'.embeddings = <<>>
           /\ docs' = docs /\ chunks' = chunks
           /\ nextDocId' = nextDocId /\ nextChunkId' = nextChunkId
           /\ req' = req
     /\ \A r \in DOMAIN req :
          req'[r].pc \in {"embed", "persist"} =>
            Lower(Suffix(req'[r].file_path)) \in {".pdf", ".txt"}]_vars

\* C18 witness: c.doc was refused while another ingestion, its document
\* flushed and its chunks embedded, was about to commit.
UnsupportedTypeFailsFirstWitness ==
  /\ last.kind = "ingest"
  /\ last.file_path = "c.doc"
  /\ \E r \in DOMAIN req : req[r].pc = "persist" /\ req[r].chunk_list # <<>>

\* C19: an ingestion whose chunking yields no chunk makes no external
\* embedding call and does not fail at the embedding stage; unless the commit
\* itself fails it returns (document_id, 0) with the document row committed
\* and no chunk row for it.
ZeroChunksIngests ==
  /\ \A r \in DOMAIN req :
       (req[r].pc = "persist" /\ req[r].chunk_list = <<>>) =>
          (req[r].embed_calls = 0 /\ req[r].embeddings = <<>>)
  /\ (/\ last.kind = "ingest"
      /\ last.chunk_list = <<>>
      /\ Len(last.stages) >= 2 /\ last.stages[2] = "CHUNKED")
     => /\ last.embed_calls = 0
        /\ last.resp.stage # "embed"
        /\ last.resp.stage # "commit" =>
             /\ last.resp.status = "returned"
             /\ last.resp.document_id = last.document.id
             /\ last.resp.chunk_count = 0
             /\ last.document \in docs
             /\ ChunksOf(chunks, last.document.id) = {}

\* C19 witness: the ingestion of a.txt, which is empty, returned.
ZeroChunksIngestsWitness ==
  /\ last.kind = "ingest"
  /\ last.file_path = "a.txt"
  /\ last.resp.status = "returned"
  /\ last.chunk_list = <<>>

ShortDocumentOneChunk ==
  (svc.op = "process" /\ svc.pc = "returned"
     /\ Len(svc.result[1].full_content) < chunk_size) =>
    /\ Len(svc.result[1].chunks) = 1
    /\ svc.result[1].chunks[1].text = Strip(svc.result[1].full_content)

\* C21 (amended): a document whose whole text is shorter than chunk_size is
\* chunked into exactly one chunk per non-blank page, in page order, each
\* chunk's text being the trimmed text of its page; so a document loaded as a
\* single non-blank page yields exactly one chunk, the trimmed input text.
ChunkPerNonBlankPage ==
  (svc.op = "process" /\ svc.pc = "returned"
     /\ Len(svc.result[1].full_content) < chunk_size) =>
    LET pages == svc.texts
        out == svc.result[1].chunks
        nonblank == SelectSeq(pages, LAMBDA p : Strip(p) # <<>>)
    IN /\ Len(out) = Len(nonblank)
       /\ \A i \in 1..Len(out) :
            out[i].text = Strip(nonblank[i]) /\ out[i].chunk_index = i - 1
       /\ (Len(pages) = 1 /\ nonblank # <<>>) =>
            /\ Len(out) = 1
            /\ out[1].text = Strip(svc.result[1].full_content)

\* C21 witness: a document of a padded page, a blank page and a plain page
\* was chunked.
ChunkPerNonBlankPageWitness ==
  /\ svc.op = "process"
  /\ svc.pc = "returned"
  /\ svc.texts = << <<" ", "a", "\n">>, <<" ">>, <<"a">> >>
  /\ Len(svc.result[1].chunks) = 2

\* C22: a session from get_session is committed exactly when its block exits
\* normally; when the block raises its work is rolled back and the exception
\* reaches the caller; a session from get_session or from get_db is closed on
\* every exit path, also when the block (the request handler) raises.
SessionDiscipline ==
  (last.kind = "session") =>
    LET s == last.session
        count(call) == Cardinality({i \in 1..Len(s.calls) : s.calls[i] = call})
    IN /\ s.closed
       /\ count("close") = 1
       /\ s.calls[Len(s.calls)] = "close"
       /\ last.via = "get_session" =>
            /\ count("commit") = (IF s.exit = "normal" THEN 1 ELSE 0)
            /\ s.exit = "normal" => s.calls[1] = "commit"
            /\ s.exit # "normal" =>
                 /\ s.tx = "rolled back"
                 /\ last.resp.status = "raised"
                 /\ last.resp.error = s.exit
                 /\ last.document \notin docs
            /\ IsException(s.exit) => s.calls = <<"rollback", "close">>
       /\ last.via = "get_db" =>
            /\ s.calls = <<"close">>
            /\ s.exit # "normal" =>
                 last.resp.status = "raised" /\ last.resp.error = s.exit

\* C22 witness: a block that wrote a row through a get_session session
\* raised, while a handler using a get_db session was still running.
SessionDisciplineWitness ==
  /\ last.kind = "session"
  /\ last.via = "get_session"
  /\ last.session.exit = "ValueError"
  /\ last.document # NoDoc
  /\ \E r \in DOMAIN req : req[r].pc = "block" /\ req[r].via = "get_db"

\* C23: whatever uploads, ingestions and deletions came before, also of files
\* with the same filename, a deletion that succeeded has left every other
\* stored document with its backing file, holding the content that document
\* was ingested from.
DeleteSparesOtherFiles ==
  (last.kind = "delete" /\ last.resp.status = "204") =>
    \A d \in docs :
      (d.id # last.document.id /\ d.file_path = last.document.file_path) =>
        /\ files[d.file_path] # NoFile
        /\ files[d.file_path] = d.content

\* C25: a delete_document that failed after it started (its commit failed) has
\* left the document row, all its chunk rows and its backing file in place,
\* the file holding what the document was ingested from.
DeleteAllOrNothing ==
  (last.kind = "delete" /\ last.resp.status = "500"
     /\ last.resp.stage = "commit") =>
    /\ last.document \in docs
    /\ \A id \in last.matched : \E c \in chunks : c.id = id
    /\ files[last.document.file_path] # NoFile
    /\ files[last.document.file_path] = last.document.content

CountMatchesRows ==
  (last.kind = "ingest" /\ last.resp.status = "returned") =>
    last.resp.chunk_count = Cardinality(ChunksOf(chunks, last.document.id))

====
